---- MODULE Spec2Model ----
(***************************************************************************)
(* A model of cpal's JACK stream bridge (src/src/host/jack/stream.rs) and  *)
(* of the generic output Buffer handle (src/src/lib.rs).                   *)
(*                                                                         *)
(* The realtime thread runs LocalProcessHandler::process one step at a     *)
(* time (flag load, one iteration of the frame loop, return) so that the   *)
(* application thread's play()/pause()/drop can interleave with it.        *)
(* Sequences are 1-based: Rust index k is TLA+ index k + 1.                *)
(***************************************************************************)
EXTENDS Integers, Sequences, FiniteSets, TLC

\* ---------------------------------------------------------------- bounds
\* channels of a stream are drawn from 1..MaxChannels
MaxChannels == 2
\* client.buffer_size() at construction is drawn from 1..MaxPeriod
MaxPeriod == 3
\* process_scope.n_frames() of one native callback is drawn from 1..MaxFrames
MaxFrames == 4
\* cap on the frames served to one stream over a behaviour
MaxTotal == 7
\* cap on the backend cycles counted after the stream was dropped
MaxDeadCycles == 2
\* cap on the Buffer handles created over a behaviour, and on their length
MaxBuffers == 2
MaxBufLen == 2
\* when construction and port wiring are followed step by step, the channels
\* of the stream are drawn from 1..MaxDeclaredPorts and the system ports the
\* backend publishes from 0..MaxSystemPorts
MaxDeclaredPorts == 4
MaxSystemPorts == 3
\* cap on the runtime faults the backend raises over a behaviour
MaxFaults == 2
\* sample rates are drawn from 1..MaxRate
MaxRate == 3

\* What a native port buffer holds before the bridge writes it (whatever the
\* backend left there); distinct from every sample the bridge can produce.
Stale == 0 - 1

VARIABLES
    kind,           \* "output" | "input": which constructor built the stream
    handler,        \* the LocalProcessHandler struct
    playing,        \* the Arc<AtomicBool> shared by Stream and handler
    active,         \* Stream.async_client is alive (client activated)
    pc,             \* realtime thread: "idle" | "loop" | "done"
    i,              \* loop variable of `for i in 0..current_buffer_size`
    current_buffer_size, \* process_scope.n_frames() of the invocation
    port_buffers,   \* as_mut_slice(process_scope) of each output port
    emitted,        \* history: every frame written to the native outputs
    ncalls,         \* history: invocations of the user output callback
    in_ncalls,      \* history: invocations of the user input callback
    served,         \* history: frames requested by invocations that ran
    snap,           \* history: the bridge as the current invocation found it
    frozen,         \* history: the bridge when a pause was observed
    dead,           \* history: what happened since the stream was dropped
    ctl,            \* history: the last play()/pause() and what it found
    mutex,          \* the Mutex around the output callback: "free" | "rt"
    in_callback,    \* the user output callback is executing
    cb_view,        \* history: length of the view the last user callback got
    ref_handler,    \* a second bridge, served in aligned chunks only
    ref_ncalls,     \* its user callback count
    ref_emitted,    \* its emitted frames
    fork_at,        \* history: frames the first bridge had emitted when the second was set up
    buffer,         \* lib.rs Buffer handle in the user's hands, or <<>>
    device,         \* what the device has been sent (cpal_impl finish)
    created,        \* history: Buffer handles created
    last_read,      \* history: outcome of the last read through a Buffer
    build,          \* Stream::new_input / new_output: the constructor's progress
    wire,           \* connect_to_system_outputs / _inputs: the call's progress
    faults,         \* history: runtime faults (xruns) the backend has raised
    err_ncalls,     \* history: invocations of the user error callback
    conv            \* a SupportedFormat, a Format and what they were converted to

bridge_vars == <<kind, handler, playing, active, pc, i, current_buffer_size,
                 port_buffers, emitted, ncalls, in_ncalls, served,
                 snap, frozen, dead, ctl, mutex, in_callback, cb_view>>
ref_vars == <<ref_handler, ref_ncalls, ref_emitted, fork_at>>
buffer_vars == <<buffer, device, created, last_read>>
setup_vars == <<build, wire, faults, err_ncalls>>
format_vars == <<conv>>
vars == <<bridge_vars, ref_vars, buffer_vars, setup_vars, format_vars>>

\* ------------------------------------------------------- construction
\* vec![0.0; n]
Zeros(n) == [j \in 1..n |-> 0]

\* A handler that is created with its staging buffer depleted
newDepleted(out_ports, in_ports, input_data_callback, output_data_callback, buffer_size) ==
    [ out_ports |-> out_ports,
      in_ports |-> in_ports,
      input_data_callback |-> input_data_callback,
      output_data_callback |-> output_data_callback,
      temp_output_buffer |-> Zeros(Len(out_ports) * buffer_size),
      temp_output_buffer_size |-> buffer_size,
      temp_output_buffer_index |-> buffer_size ]

\* LocalProcessHandler::new: the staging buffer is out_ports.len() * buffer_size
\* zeros and the cursor starts at 0.
new(out_ports, in_ports, input_data_callback, output_data_callback, buffer_size) ==
    [ out_ports |-> out_ports,
      in_ports |-> in_ports,
      input_data_callback |-> input_data_callback,
      output_data_callback |-> output_data_callback,
      temp_output_buffer |-> Zeros(Len(out_ports) * buffer_size),
      temp_output_buffer_size |-> buffer_size,
      temp_output_buffer_index |-> 0 ]

\* `for i in 0..channels { register_port(..) ; ports.push(port) }`
RegisterPorts(channels) == [p \in 1..channels |-> p - 1]

\* Stream::new_output: handler with the out ports and Some(output callback)
new_output(channels, buffer_size) ==
    new(RegisterPorts(channels), <<>>, "None", "Some", buffer_size)

\* Stream::new_input: handler with the in ports and Some(input callback)
new_input(channels, buffer_size) ==
    new(<<>>, RegisterPorts(channels), "Some", "None", buffer_size)

\* A stream that is created paused
InitialPaused == FALSE

\* `let playing = Arc::new(AtomicBool::new(true))`
InitialPlaying == TRUE

\* ------------------------------------------------------- the user callback
\* The user's data_callback writes the whole view it is given.  Its k-th
\* invocation writes the sample numbers (k-1)*len+1 .. k*len, so that every
\* sample it ever produces is distinct and positive.
UserFill(k, len) == [j \in 1..len |-> (k - 1) * len + j]

\* A view that leaves out the last sample of the Vec
temp_output_buffer_to_data_short(temp_output_buffer) == Len(temp_output_buffer) - 1

\* temp_output_buffer_to_data: a view of `len` = the whole Vec
temp_output_buffer_to_data(temp_output_buffer) == Len(temp_output_buffer)

\* ------------------------------------------------------- process, the pure steps
\* A process that never takes the early return
PausedReturnNever(flag) == FALSE

\* A process that tests the flag the wrong way round
PausedReturnInverted(flag) == flag

\* `if !self.playing.load(Ordering::SeqCst) { return Continue }`
PausedReturn(flag) == ~flag

\* `if let Some(input_callback) = &mut self.input_data_callback { /* comments */ }`
\* The branch has no statement: the number of input-callback invocations made
\* by an invocation that offers n_frames frames is the number before it.
InputBranch(h, calls, n_frames) == calls

\* `if let Some(output_callback_mutex) = &mut self.output_data_callback`
HasOutputCallback(h) == h.output_data_callback = "Some"

\* A frame loop whose cursor starts over at every invocation
EnterLoopReset(h) == [h EXCEPT !.temp_output_buffer_index = 0]

\* The handler as the frame loop finds it on entry: the cursor is a field of
\* self, so the loop continues where the previous invocation stopped.
EnterLoop(h) == h

\* A refill test that never fires
DepletedNever(h) == FALSE

\* A refill test that fires one frame early
DepletedEarly(h) == h.temp_output_buffer_index + 1 >= h.temp_output_buffer_size

\* `if self.temp_output_buffer_index == self.temp_output_buffer_size`
Depleted(h) == h.temp_output_buffer_index = h.temp_output_buffer_size

\* `output_callback(&mut data); self.temp_output_buffer_index = 0;`
\* as the k-th invocation of the user callback
Refill(h, k) ==
    [h EXCEPT !.temp_output_buffer = UserFill(k, temp_output_buffer_to_data(@)),
              !.temp_output_buffer_index = 0]

\* A read that takes the staging buffer to be planar (channel after channel)
SampleAtPlanar(h, ch_ix) ==
    h.temp_output_buffer[ch_ix * h.temp_output_buffer_size + h.temp_output_buffer_index + 1]

\* `self.temp_output_buffer[ch_ix + self.temp_output_buffer_index * num_out_channels]`
SampleAt(h, ch_ix) ==
    h.temp_output_buffer[ch_ix + h.temp_output_buffer_index * Len(h.out_ports) + 1]

\* `output_channel[i] = self.temp_output_buffer[ch_ix + index * num_out_channels]`
\* panics when i is not below the n frames of the native port buffer or the
\* index read (at the cursor the test at the top of the iteration leaves) is
\* not below the length of the staging buffer.
IndexPanics(h, at, n) ==
    LET cursor == IF Depleted(h) THEN 0 ELSE h.temp_output_buffer_index
    IN  \E ch_ix \in 0..(Len(h.out_ports) - 1) :
            \/ at >= n
            \/ ch_ix + cursor * Len(h.out_ports) >= Len(h.temp_output_buffer)

\* `self.temp_output_buffer_index += 1;`
Advance(h) == [h EXCEPT !.temp_output_buffer_index = @ + 1]

\* One iteration of `for i in 0..current_buffer_size`: refill when depleted,
\* copy one sample per channel, advance the cursor.
FrameStep(h, calls) ==
    LET refill == Depleted(h)
        h1 == IF refill THEN Refill(h, calls + 1) ELSE h
    IN  [ handler |-> Advance(h1),
          ncalls |-> IF refill THEN calls + 1 ELSE calls,
          frame |-> [c \in 1..Len(h.out_ports) |-> SampleAt(h1, c - 1)] ]

\* The frame loop run for n iterations from (h, calls), appending to `out`.
RECURSIVE RunFrames(_, _, _, _)
RunFrames(h, calls, n, out) ==
    IF n = 0 THEN [handler |-> h, ncalls |-> calls, emitted |-> out]
    ELSE LET r == FrameStep(h, calls)
         IN  RunFrames(r.handler, r.ncalls, n - 1, Append(out, r.frame))

\* Native port buffers of an invocation of n frames before the bridge writes
FreshPortBuffers(h, n) == [c \in 1..Len(h.out_ports) |-> [j \in 1..n |-> Stale]]

\* `output_channel[i] = sample` for every channel of one frame
WriteFrame(bufs, at, frame) ==
    [c \in 1..Len(bufs) |-> [bufs[c] EXCEPT ![at + 1] = frame[c]]]

\* ------------------------------------------------------- control operations
\* A play() that toggles the flag
playToggle(flag) == ~flag

\* StreamTrait::play: `self.playing.store(true, SeqCst)`
play(flag) == TRUE

\* StreamTrait::pause: `self.playing.store(false, SeqCst)`
pause(flag) == FALSE

\* A play()/pause() that locks the callback's Mutex
ControlLockTaken(m) == "app"

\* play() and pause() do not touch the callback's Mutex: its state after
\* the call is its state before.
ControlLock(m) == m

\* A play()/pause() that takes the lock around the user callback
ControlWaitsForLock(m) == m # "free"

\* play() and pause() are a store to the atomic flag and nothing else: they
\* take no lock and wait for nothing, whoever holds the callback's Mutex.
ControlBlocked(m) == FALSE

\* A Stream whose drop leaves the client activated
DropStreamLeak(is_active) == is_active

\* Dropping the Stream drops async_client, the only owner of the activated
\* client and of the handler: the client is deactivated.
DropStream(is_active) == FALSE

\* ------------------------------------------------------- the constructor, step by step
\* `format!("out_{}", i)` / `format!("in_{}", i)`
PortName(k, idx) == <<IF k = "output" THEN "out" ELSE "in", idx>>

\* `register_port(..).expect("Failed to create JACK port.")`: what becomes of
\* the constructor when the backend answers ok / not ok
RegisterOutcome(ok) == IF ok THEN "continue" ELSE "panic"

\* `client.activate_async((), handler).unwrap()`
ActivateOutcome(ok) == IF ok THEN "stream" ELSE "panic"

\* The constructor's record once `Stream { .. }` has been returned with every
\* port name recorded
Built(k, channels, buffer_size) ==
    [ stage |-> "done", kind |-> k, channels |-> channels,
      buffer_size |-> buffer_size,
      ports |-> RegisterPorts(channels),
      port_names |-> [p \in 1..channels |-> PortName(k, p - 1)],
      log |-> [p \in 1..(channels + 2) |->
                 IF p <= channels THEN "register"
                 ELSE IF p = channels + 1 THEN "new" ELSE "activate"],
      failed |-> FALSE, result |-> "stream" ]

\* Stream.output_port_names / Stream.input_port_names
output_port_names == IF build.kind = "output" THEN build.port_names ELSE <<>>
input_port_names == IF build.kind = "input" THEN build.port_names ELSE <<>>

\* The application holds a Stream: the constructor returned one and it has
\* not been dropped.
StreamExists == build.stage = "done" /\ dead = <<>>

\* No wiring call has been made
NoWire == [stage |-> "idle", dir |-> "none", system_ports |-> <<>>, i |-> 0,
           attempts |-> <<>>, reports |-> <<>>, result |-> "none"]

\* ------------------------------------------------------- initial state
InitBridge(k, channels, buffer_size) ==
    /\ kind = k
    /\ handler = IF k = "output" THEN new_output(channels, buffer_size)
                                 ELSE new_input(channels, buffer_size)
    /\ playing = InitialPlaying
    /\ active = TRUE
    /\ pc = "idle"
    /\ i = 0
    /\ current_buffer_size = 0
    /\ port_buffers = <<>>
    /\ emitted = <<>>
    /\ ncalls = 0
    /\ in_ncalls = 0
    /\ served = 0
    /\ snap = <<>>
    /\ frozen = <<>>
    /\ dead = <<>>
    /\ ctl = <<>>
    /\ mutex = "free"
    /\ in_callback = FALSE
    /\ cb_view = <<>>
    /\ ref_handler = handler
    /\ ref_ncalls = 0
    /\ ref_emitted = <<>>
    /\ fork_at = 0
    /\ build = Built(k, channels, buffer_size)
    /\ wire = NoWire
    /\ faults = 0
    /\ err_ncalls = 0

\* No format has been converted
InitFormat == conv = [stage |-> "none"]

InitBuffer ==
    /\ buffer = <<>>
    /\ device = <<>>
    /\ created = 0
    /\ last_read = [outcome |-> "none", data |-> <<>>, seen |-> <<>>]

Init ==
    /\ \E k \in {"output", "input"}, channels \in 1..MaxChannels,
          buffer_size \in 1..MaxPeriod : InitBridge(k, channels, buffer_size)
    /\ InitBuffer
    /\ InitFormat

\* ------------------------------------------------------- realtime thread
\* The backend starts a cycle of n frames on the activated client: process
\* loads the flag, returns if paused, runs the (empty) input branch, and
\* enters the frame loop if there is an output callback.
ProcessBegin(n) ==
    /\ active
    /\ pc = "idle"
    /\ served + n <= MaxTotal
    /\ mutex = "free"
    /\ LET flag == playing
           run == ~PausedReturn(flag)
           h == EnterLoop(handler)
       IN  /\ snap' = <<[flag |-> flag, n |-> n, handler |-> handler,
                         ncalls |-> ncalls, in_ncalls |-> in_ncalls,
                         total |-> Len(emitted),
                         after |-> IF ctl = <<>> THEN "none" ELSE ctl[1].op]>>
           /\ port_buffers' = FreshPortBuffers(handler, n)
           /\ current_buffer_size' = n
           /\ i' = 0
           /\ served' = IF run THEN served + n ELSE served
           /\ in_ncalls' = IF run THEN InputBranch(handler, in_ncalls, n) ELSE in_ncalls
           /\ handler' = IF run /\ HasOutputCallback(handler) THEN h ELSE handler
           /\ pc' = IF run /\ HasOutputCallback(handler) THEN "loop" ELSE "done"
           /\ frozen' = IF ~flag
                        THEN IF frozen = <<>> \/ frozen[1].played
                             THEN <<[index |-> handler.temp_output_buffer_index,
                                     buffer |-> handler.temp_output_buffer,
                                     ncalls |-> ncalls,
                                     total |-> Len(emitted),
                                     played |-> FALSE]>>
                             ELSE frozen
                        ELSE IF HasOutputCallback(handler) THEN frozen ELSE <<>>
           /\ mutex' = IF run /\ HasOutputCallback(handler) THEN "rt" ELSE mutex
    /\ UNCHANGED <<kind, playing, active, emitted, ncalls, dead, ctl,
                   in_callback, cb_view>>
    /\ UNCHANGED <<ref_vars, buffer_vars, setup_vars, format_vars>>

\* The frame loop finds the staging buffer depleted and invokes the user
\* callback on a view of it; the callback runs under the lock.
CallbackEnter ==
    /\ pc = "loop"
    /\ Depleted(handler)
    /\ ~in_callback
    /\ in_callback' = TRUE
    /\ cb_view' = <<temp_output_buffer_to_data(handler.temp_output_buffer)>>
    /\ UNCHANGED <<kind, handler, playing, active, pc, i, current_buffer_size,
                   port_buffers, emitted, ncalls, in_ncalls, served, snap,
                   frozen, dead, ctl, mutex>>
    /\ UNCHANGED <<ref_vars, buffer_vars, setup_vars, format_vars>>

\* One iteration of the frame loop, from the return of the user callback if
\* it was invoked; the lock is released when the loop ends.  An index past
\* the end of the staging buffer or of a native port buffer unwinds out of
\* process with the lock held.
ProcessFrame ==
    /\ pc = "loop"
    /\ Depleted(handler) => in_callback
    /\ IF IndexPanics(handler, i, current_buffer_size)
       THEN /\ pc' = "panic"
            /\ mutex' = "poisoned"
            /\ UNCHANGED <<handler, ncalls, port_buffers, emitted, i, frozen,
                           in_callback>>
       ELSE /\ in_callback' = FALSE
            /\ mutex' = IF i + 1 < current_buffer_size THEN mutex ELSE "free"
            /\ LET r == FrameStep(handler, ncalls)
               IN  /\ handler' = r.handler
                   /\ ncalls' = r.ncalls
                   /\ port_buffers' = WriteFrame(port_buffers, i, r.frame)
                   /\ emitted' = Append(emitted,
                          [c \in 1..Len(handler.out_ports) |->
                              port_buffers'[c][i + 1]])
            /\ i' = i + 1
            /\ pc' = IF i + 1 < current_buffer_size THEN "loop" ELSE "done"
            /\ frozen' = <<>>
    /\ UNCHANGED <<kind, playing, active, current_buffer_size, in_ncalls,
                   served, snap, dead, ctl, cb_view>>
    /\ UNCHANGED <<ref_vars, buffer_vars, setup_vars, format_vars>>

\* `jack::Control::Continue`
ProcessReturn ==
    /\ pc = "done"
    /\ pc' = "idle"
    /\ snap' = <<>>
    /\ UNCHANGED <<kind, handler, playing, active, i, current_buffer_size,
                   port_buffers, emitted, ncalls, in_ncalls, served, frozen, dead,
                   ctl, mutex, in_callback, cb_view>>
    /\ UNCHANGED <<ref_vars, buffer_vars, setup_vars, format_vars>>

\* ------------------------------------------------------- application thread
Play ==
    /\ StreamExists
    /\ ~ControlBlocked(mutex)
    /\ playing' = play(playing)
    /\ ctl' = <<[op |-> "play", was |-> playing, in_cb |-> in_callback]>>
    /\ frozen' = IF frozen = <<>> THEN frozen
                 ELSE <<[frozen[1] EXCEPT !.played = TRUE]>>
    /\ mutex' = ControlLock(mutex)
    /\ UNCHANGED <<kind, handler, active, pc, i, current_buffer_size,
                   port_buffers, emitted, ncalls, in_ncalls, served, snap, dead,
                   in_callback, cb_view>>
    /\ UNCHANGED <<ref_vars, buffer_vars, setup_vars, format_vars>>

Pause ==
    /\ StreamExists
    /\ ~ControlBlocked(mutex)
    /\ playing' = pause(playing)
    /\ ctl' = <<[op |-> "pause", was |-> playing, in_cb |-> in_callback]>>
    /\ mutex' = ControlLock(mutex)
    /\ UNCHANGED <<kind, handler, active, pc, i, current_buffer_size,
                   port_buffers, emitted, ncalls, in_ncalls, served, snap,
                   frozen, dead, in_callback, cb_view>>
    /\ UNCHANGED <<ref_vars, buffer_vars, setup_vars, format_vars>>

\* destroy_stream / drop of the owner: returns once the client is
\* deactivated, which waits for a cycle in progress to end.
Destroy ==
    /\ StreamExists
    /\ pc = "idle"
    /\ active' = DropStream(active)
    /\ dead' = <<[ncalls |-> ncalls, in_ncalls |-> in_ncalls,
                  total |-> Len(emitted), cycles |-> 0]>>
    /\ UNCHANGED <<kind, handler, playing, pc, i, current_buffer_size,
                   port_buffers, emitted, ncalls, in_ncalls, served, snap, frozen,
                   ctl, mutex, in_callback, cb_view>>
    /\ UNCHANGED <<ref_vars, buffer_vars, setup_vars, format_vars>>

\* The backend runs a cycle while the client is not activated: no handler
\* of the stream is invoked.
DeadCycle ==
    /\ ~active
    /\ dead # <<>>
    /\ dead[1].cycles < MaxDeadCycles
    /\ dead' = <<[dead[1] EXCEPT !.cycles = @ + 1]>>
    /\ UNCHANGED <<kind, handler, playing, active, pc, i, current_buffer_size,
                   port_buffers, emitted, ncalls, in_ncalls, served, snap, frozen,
                   ctl, mutex, in_callback, cb_view>>
    /\ UNCHANGED <<ref_vars, buffer_vars, setup_vars, format_vars>>

Next ==
    \/ \E n \in 1..MaxFrames : ProcessBegin(n)
    \/ CallbackEnter
    \/ ProcessFrame
    \/ ProcessReturn
    \/ Play
    \/ Pause
    \/ Destroy
    \/ DeadCycle

Spec == Init /\ [][Next]_vars

\* ------------------------------------------------------- whole invocations
\* process as one step: what a complete invocation of n_frames frames makes
\* of (h, calls, out) when it loads `flag`
process(h, calls, flag, n_frames, out) ==
    IF PausedReturn(flag) \/ ~HasOutputCallback(h)
    THEN [handler |-> h, ncalls |-> calls, emitted |-> out]
    ELSE RunFrames(EnterLoop(h), calls, n_frames, out)

\* The reference bridge serves one invocation of exactly one period while
\* playing; its user callback is the same function of the invocation number.
ProcessAligned ==
    /\ HasOutputCallback(ref_handler)
    /\ fork_at + Len(ref_emitted) + ref_handler.temp_output_buffer_size <= MaxTotal
    /\ LET r == process(ref_handler, ref_ncalls, TRUE,
                        ref_handler.temp_output_buffer_size, ref_emitted)
       IN  /\ ref_handler' = r.handler
           /\ ref_ncalls' = r.ncalls
           /\ ref_emitted' = r.emitted
    /\ UNCHANGED <<bridge_vars, buffer_vars, setup_vars, format_vars, fork_at>>

\* The reference bridge is put in the state the first bridge is in between
\* two invocations, before it has served anything: the two then start from
\* the same bridge state, and the next user fill is the same for both.
SameStart ==
    /\ pc = "idle"
    /\ ref_emitted = <<>>
    /\ fork_at = 0
    /\ Len(emitted) > 0
    /\ ref_handler' = handler
    /\ ref_ncalls' = ncalls
    /\ fork_at' = Len(emitted)
    /\ UNCHANGED <<bridge_vars, buffer_vars, setup_vars, format_vars, ref_emitted>>

NextCarry == Next \/ ProcessAligned \/ SameStart

SpecCarry == Init /\ [][NextCarry]_vars

\* ------------------------------------------------------- lib.rs: the Buffer handle
\* The sample values a user writes through a handle
SampleValues == {1, 2}

\* `Buffer { target: Some(..) }` over a backend buffer of `len` samples whose
\* content is whatever the backend left there
NewBuffer(id, len) == [id |-> id, target |-> <<[j \in 1..len |-> Stale]>>]

\* cpal_impl::Buffer::finish: the samples are handed to the device
finish(dev, id, data) == Append(dev, [id |-> id, data |-> data])

\* A deref that hands out the samples
derefReturns(b) == [outcome |-> "returned", data |-> b.target[1]]

\* Deref::deref: `panic!("It is forbidden to read from the audio buffer")`
deref(b) == [outcome |-> "panic", data |-> <<>>]

\* DerefMut::deref_mut, `self.target.as_mut().unwrap().buffer()`, and a store
\* of v at index `at` of the slice it returns
deref_mut(b, at, v) == [b EXCEPT !.target = <<[@[1] EXCEPT ![at + 1] = v]>>]

\* A drop that takes the target and does not finish it
dropNoFinish(b, dev) == [buffer |-> [b EXCEPT !.target = <<>>], device |-> dev]

\* Drop::drop: `self.target.take().unwrap().finish()`
drop(b, dev) ==
    [ buffer |-> [b EXCEPT !.target = <<>>],
      device |-> finish(dev, b.id, b.target[1]) ]

\* The backend hands a fresh Buffer to the user callback
BufferCreate ==
    /\ buffer = <<>>
    /\ created < MaxBuffers
    /\ \E len \in 1..MaxBufLen : buffer' = <<NewBuffer(created + 1, len)>>
    /\ created' = created + 1
    /\ UNCHANGED <<device, last_read>>
    /\ UNCHANGED <<bridge_vars, ref_vars, setup_vars, format_vars>>

\* The user stores a sample through the handle
BufferWrite ==
    /\ buffer # <<>>
    /\ \E at \in 0..(Len(buffer[1].target[1]) - 1), v \in SampleValues :
           buffer' = <<deref_mut(buffer[1], at, v)>>
    /\ UNCHANGED <<device, created, last_read>>
    /\ UNCHANGED <<bridge_vars, ref_vars, setup_vars, format_vars>>

\* The user reads through the handle.  A panic unwinds the callback, which
\* owns the handle: the handle is dropped on the way out.
BufferRead ==
    /\ buffer # <<>>
    /\ LET r == deref(buffer[1])
           d == drop(buffer[1], device)
       IN  /\ last_read' = [outcome |-> r.outcome, data |-> r.data,
                            seen |-> buffer[1].target[1]]
           /\ IF r.outcome = "panic"
              THEN buffer' = <<>> /\ device' = d.device
              ELSE UNCHANGED <<buffer, device>>
    /\ UNCHANGED created
    /\ UNCHANGED <<bridge_vars, ref_vars, setup_vars, format_vars>>

\* The user callback returns, or drops the handle: Drop::drop runs
BufferRelease ==
    /\ buffer # <<>>
    /\ LET d == drop(buffer[1], device)
       IN  buffer' = <<>> /\ device' = d.device
    /\ UNCHANGED <<created, last_read>>
    /\ UNCHANGED <<bridge_vars, ref_vars, setup_vars, format_vars>>

InitOneStream == InitBridge("output", 1, 1) /\ InitBuffer /\ InitFormat

NextBuffer == BufferCreate \/ BufferWrite \/ BufferRead \/ BufferRelease

SpecBuffer == InitOneStream /\ [][NextBuffer]_vars

\* ------------------------------------------------------- construction, wiring, faults
\* The handler slot before LocalProcessHandler::new has run
Unbuilt(buffer_size) == new(<<>>, <<>>, "None", "None", buffer_size)

\* Stream::new_input / new_output has just been called on a client
InitSetup ==
    /\ \E k \in {"output", "input"}, channels \in 1..MaxDeclaredPorts,
          buffer_size \in 1..MaxPeriod :
          /\ kind = k
          /\ handler = Unbuilt(buffer_size)
          /\ build = [ stage |-> "ports", kind |-> k, channels |-> channels,
                       buffer_size |-> buffer_size, ports |-> <<>>,
                       port_names |-> <<>>, log |-> <<>>, failed |-> FALSE,
                       result |-> "pending" ]
    /\ playing = FALSE
    /\ active = FALSE
    /\ pc = "idle"
    /\ i = 0
    /\ current_buffer_size = 0
    /\ port_buffers = <<>>
    /\ emitted = <<>>
    /\ ncalls = 0
    /\ in_ncalls = 0
    /\ served = 0
    /\ snap = <<>>
    /\ frozen = <<>>
    /\ dead = <<>>
    /\ ctl = <<>>
    /\ mutex = "free"
    /\ in_callback = FALSE
    /\ cb_view = <<>>
    /\ ref_handler = handler
    /\ ref_ncalls = 0
    /\ ref_emitted = <<>>
    /\ fork_at = 0
    /\ wire = NoWire
    /\ faults = 0
    /\ err_ncalls = 0
    /\ InitBuffer
    /\ InitFormat

\* One iteration of `for i in 0..channels`: register_port(..).expect(..),
\* push the port's name if port.name() is Ok, push the port.
BuildRegister ==
    /\ build.stage = "ports"
    /\ Len(build.ports) < build.channels
    /\ \E ok \in BOOLEAN, name_ok \in BOOLEAN :
          LET idx == Len(build.ports)
          IN  build' =
                IF RegisterOutcome(ok) = "panic"
                THEN [build EXCEPT !.stage = "panic", !.failed = TRUE,
                                   !.result = "panic",
                                   !.log = Append(@, "register")]
                ELSE [build EXCEPT !.ports = Append(@, idx),
                                   !.port_names =
                                       IF name_ok
                                       THEN Append(@, PortName(build.kind, idx))
                                       ELSE @,
                                   !.log = Append(@, "register")]
    /\ UNCHANGED <<bridge_vars, ref_vars, buffer_vars, format_vars,
                   wire, faults, err_ncalls>>

\* A constructor that goes on to the handler from inside the loop
SomeRegistered(b) == Len(b.ports) >= 1

\* `for i in 0..channels { .. }` has run to its end
AllRegistered(b) == Len(b.ports) = b.channels

\* After the loop: the flag is created set and LocalProcessHandler::new is
\* given the ports that were registered.
BuildHandler ==
    /\ build.stage = "ports"
    /\ AllRegistered(build)
    /\ playing' = InitialPlaying
    /\ handler' = IF build.kind = "output"
                  THEN new(build.ports, <<>>, "None", "Some", build.buffer_size)
                  ELSE new(<<>>, build.ports, "Some", "None", build.buffer_size)
    /\ build' = [build EXCEPT !.stage = "activate", !.log = Append(@, "new")]
    /\ UNCHANGED <<kind, active, pc, i, current_buffer_size, port_buffers,
                   emitted, ncalls, in_ncalls, served, snap, frozen, dead, ctl,
                   mutex, in_callback, cb_view>>
    /\ UNCHANGED <<ref_vars, buffer_vars, format_vars, wire, faults, err_ncalls>>

\* `client.activate_async((), handler).unwrap()` and the return of the Stream
BuildActivate ==
    /\ build.stage = "activate"
    /\ \E ok \in BOOLEAN :
          IF ActivateOutcome(ok) = "panic"
          THEN /\ build' = [build EXCEPT !.stage = "panic", !.failed = TRUE,
                                         !.result = "panic",
                                         !.log = Append(@, "activate")]
               /\ active' = active
          ELSE /\ build' = [build EXCEPT !.stage = "done", !.result = "stream",
                                         !.log = Append(@, "activate")]
               /\ active' = TRUE
    /\ UNCHANGED <<kind, handler, playing, pc, i, current_buffer_size,
                   port_buffers, emitted, ncalls, in_ncalls, served, snap,
                   frozen, dead, ctl, mutex, in_callback, cb_view>>
    /\ UNCHANGED <<ref_vars, buffer_vars, format_vars, wire, faults, err_ncalls>>

\* `self.async_client.as_client().ports(Some("system:playback_.*"), ..)`
\* (resp. capture) when the backend publishes m such ports
SystemPorts(dir, m) ==
    [j \in 1..m |-> <<IF dir = "outputs" THEN "playback" ELSE "capture", j>>]

\* the names the wiring call iterates over
WireNames(dir) == IF dir = "outputs" THEN output_port_names ELSE input_port_names

\* A loop that stops one system port early
WireStopsEarly(at, n, m) == at < n /\ at + 1 < m

\* `for i in 0..names.len() { if i >= system_ports.len() { break; } ..`
WireContinues(at, n, m) == at < n /\ at < m

\* A wiring call that gives up at the first connection that fails
OnConnectErrorAbort == "abort"

\* `Err(e) => println!("Unable to connect to port with error {}", e)`
OnConnectError == "report"

\* connect_to_system_outputs / connect_to_system_inputs is called and has
\* queried the system ports
WireBegin(dir, m) ==
    /\ StreamExists
    /\ wire.stage \in {"idle", "done"}
    /\ wire' = [ stage |-> "loop", dir |-> dir,
                 system_ports |-> SystemPorts(dir, m), i |-> 0,
                 attempts |-> <<>>, reports |-> <<>>, result |-> "none" ]
    /\ UNCHANGED <<bridge_vars, ref_vars, buffer_vars, format_vars,
                   build, faults, err_ncalls>>

\* One iteration of the wiring loop, or its end
WireStep ==
    /\ wire.stage = "loop"
    /\ LET names == WireNames(wire.dir)
           at == wire.i
       IN  IF ~WireContinues(at, Len(names), Len(wire.system_ports))
           THEN wire' = [wire EXCEPT !.stage = "done", !.result = "returned"]
           ELSE \E ok \in BOOLEAN :
                  LET pair == [from |-> names[at + 1],
                               to |-> wire.system_ports[at + 1]]
                      tried == Append(wire.attempts,
                                      [from |-> pair.from, to |-> pair.to, ok |-> ok])
                  IN  wire' =
                        IF ok
                        THEN [wire EXCEPT !.attempts = tried, !.i = at + 1]
                        ELSE IF OnConnectError = "report"
                        THEN [wire EXCEPT !.attempts = tried, !.i = at + 1,
                                          !.reports = Append(@, pair)]
                        ELSE [wire EXCEPT !.attempts = tried, !.stage = "done",
                                          !.result = "raised"]
    /\ UNCHANGED <<bridge_vars, ref_vars, buffer_vars, format_vars,
                   build, faults, err_ncalls>>

\* The notification handler given to activate_async is `()`, which ignores
\* every notification; the error_callback argument of the constructor is not
\* stored anywhere.  The invocations of the user error callback after one
\* more notification are the invocations before it.
NotificationHandler(calls) == calls

\* The backend raises a runtime fault (an xrun) on the activated client
Xrun ==
    /\ StreamExists
    /\ active
    /\ faults < MaxFaults
    /\ faults' = faults + 1
    /\ err_ncalls' = NotificationHandler(err_ncalls)
    /\ UNCHANGED <<bridge_vars, ref_vars, buffer_vars, format_vars, build, wire>>

NextSetup ==
    \/ BuildRegister
    \/ BuildHandler
    \/ BuildActivate
    \/ \E dir \in {"outputs", "inputs"}, m \in 0..MaxSystemPorts : WireBegin(dir, m)
    \/ WireStep
    \/ Xrun

SpecSetup == InitSetup /\ [][NextSetup]_vars

\* ------------------------------------------------------- construction, then cycles
\* The constructor followed by the realtime cycles of the activated client
NextLife ==
    \/ BuildRegister
    \/ BuildHandler
    \/ BuildActivate
    \/ \E n \in 1..MaxFrames : ProcessBegin(n)
    \/ CallbackEnter
    \/ ProcessFrame
    \/ ProcessReturn

SpecLife == InitSetup /\ [][NextLife]_vars

\* ------------------------------------------------------- cycles, control and wiring
\* The realtime cycles of a stream interleaved with the calls the application
\* makes on it: play(), pause() and the two wiring calls.  The backend asks
\* for the shortest or the longest request.
NextGuard ==
    \/ \E n \in {1, MaxFrames} : ProcessBegin(n)
    \/ CallbackEnter
    \/ ProcessFrame
    \/ ProcessReturn
    \/ Play
    \/ Pause
    \/ \E dir \in {"outputs", "inputs"}, m \in 0..MaxSystemPorts : WireBegin(dir, m)
    \/ WireStep

SpecGuard == Init /\ [][NextGuard]_vars

\* ------------------------------------------------------- formats
\* SampleFormat
SampleFormats == {"I16", "U16", "F32"}

\* Format { channels, sample_rate, data_type }
Formats ==
    [channels : 1..MaxChannels, sample_rate : 1..MaxRate, data_type : SampleFormats]

\* SupportedFormat { channels, min_sample_rate, max_sample_rate, data_type }
\* with a range that is not empty
SupportedFormats ==
    { sf \in [channels : 1..MaxChannels, min_sample_rate : 1..MaxRate,
              max_sample_rate : 1..MaxRate, data_type : SampleFormats] :
        sf.min_sample_rate <= sf.max_sample_rate }

\* A conversion that picks the lowest rate of the range
with_min_sample_rate(self) ==
    [channels |-> self.channels, sample_rate |-> self.min_sample_rate,
     data_type |-> self.data_type]

\* SupportedFormat::with_max_sample_rate
with_max_sample_rate(self) ==
    [channels |-> self.channels, sample_rate |-> self.max_sample_rate,
     data_type |-> self.data_type]

\* impl From<Format> for SupportedFormat
from(format) ==
    [channels |-> format.channels, min_sample_rate |-> format.sample_rate,
     max_sample_rate |-> format.sample_rate, data_type |-> format.data_type]

\* The application holds a SupportedFormat or a Format
InitConv ==
    /\ InitBridge("output", 1, 1)
    /\ InitBuffer
    /\ \/ \E sf \in SupportedFormats : conv = [stage |-> "supported", sf |-> sf]
       \/ \E f \in Formats : conv = [stage |-> "format", f |-> f]

\* sf.with_max_sample_rate()
WithMaxSampleRate ==
    /\ conv.stage = "supported"
    /\ conv' = [stage |-> "picked", sf |-> conv.sf,
                f |-> with_max_sample_rate(conv.sf)]
    /\ UNCHANGED <<bridge_vars, ref_vars, buffer_vars, setup_vars>>

\* SupportedFormat::from(f)
FromFormat ==
    /\ conv.stage = "format"
    /\ conv' = [stage |-> "widened", f |-> conv.f, sf |-> from(conv.f)]
    /\ UNCHANGED <<bridge_vars, ref_vars, buffer_vars, setup_vars>>

\* SupportedFormat::from(f).with_max_sample_rate()
BackToFormat ==
    /\ conv.stage = "widened"
    /\ conv' = [stage |-> "round", f |-> conv.f, sf |-> conv.sf,
                back |-> with_max_sample_rate(conv.sf)]
    /\ UNCHANGED <<bridge_vars, ref_vars, buffer_vars, setup_vars>>

NextFormat == WithMaxSampleRate \/ FromFormat \/ BackToFormat

SpecFormat == InitConv /\ [][NextFormat]_vars

\* ------------------------------------------------------- vocabulary of the claims
Period == handler.temp_output_buffer_size
Channels == Len(handler.out_ports)
Cursor == handler.temp_output_buffer_index

\* the samples written to native channel c (1-based), in order
Channel(frames, c) == [t \in 1..Len(frames) |-> frames[t][c]]

\* frame f (0-based) of the k-th user fill, one sample per channel
FillFrame(k, f) ==
    [c \in 1..Channels |-> UserFill(k, Channels * Period)[f * Channels + c]]

\* the frames of the first n user fills, in order
Fills(n) ==
    [t \in 1..(n * Period) |-> FillFrame(((t - 1) \div Period) + 1, (t - 1) % Period)]

\* the frames emitted after the first period (which the construction-time
\* content of the staging buffer supplies)
AfterFirstPeriod ==
    IF Len(emitted) <= Period THEN <<>>
    ELSE SubSeq(emitted, Period + 1, Len(emitted))

\* C1: carryover correctness.  Two bridges built alike and fed by the same user
\* callback, one served by requests of arbitrary sizes and one by requests of
\* exactly one period, have written the same samples to every native channel
\* whenever they have served the same number of frames.
CarryoverCorrect ==
    Len(emitted) - fork_at = Len(ref_emitted) =>
        \A c \in 1..Channels :
            Channel(SubSeq(emitted, fork_at + 1, Len(emitted)), c)
                = Channel(ref_emitted, c)

\* Two bridges started mid-buffer: an unaligned invocation has just brought
\* the first to the total of the aligned one, two refills later.
CarryoverWitness ==
    /\ pc = "done"
    /\ snap[1].flag
    /\ snap[1].n % Period # 0
    /\ fork_at % Period # 0
    /\ Len(emitted) - fork_at = Len(ref_emitted)
    /\ Len(ref_emitted) >= 2 * Period
    /\ ncalls >= 2
    /\ ref_ncalls = ncalls

\* C2: interleave round-trip.  Between invocations of an output stream that
\* has served N periods, exactly N user callbacks have run and the emitted
\* frames are the frames of those N fills, in order.
InterleaveRoundTrip ==
    (kind = "output" /\ pc = "idle" /\ served % Period = 0) =>
        /\ ncalls = served \div Period
        /\ emitted = Fills(served \div Period)

\* C3: pause/resume.  From the invocation that observes the pause until the
\* first frame emitted afterwards, the cursor, the staging buffer, the user
\* callback count and the emitted frames are what they were; and until play()
\* is called the realtime thread never enters the frame loop.
PauseResume ==
    frozen # <<>> =>
        /\ Cursor = frozen[1].index
        /\ handler.temp_output_buffer = frozen[1].buffer
        /\ ncalls = frozen[1].ncalls
        /\ Len(emitted) = frozen[1].total
        /\ ~frozen[1].played => pc # "loop"

\* After a pause observed mid-buffer and a play(), the realtime thread is
\* about to emit its first frame.
PauseResumeWitness ==
    /\ frozen # <<>>
    /\ frozen[1].played
    /\ pc = "loop"
    /\ frozen[1].ncalls >= 1
    /\ frozen[1].index > 0
    /\ frozen[1].index < Period

\* C4: an invocation that loaded the flag as false has, when it returns,
\* written no native sample, invoked no user callback and left the staging
\* buffer and the cursor as it found them.
PausedNoOp ==
    (pc = "done" /\ ~snap[1].flag) =>
        /\ port_buffers = FreshPortBuffers(snap[1].handler, snap[1].n)
        /\ handler = snap[1].handler
        /\ ncalls = snap[1].ncalls
        /\ in_ncalls = snap[1].in_ncalls
        /\ Len(emitted) = snap[1].total

\* A paused invocation of an output stream returns with the cursor mid-buffer
PausedNoOpWitness ==
    /\ pc = "done"
    /\ ~snap[1].flag
    /\ kind = "output"
    /\ Cursor > 0
    /\ ncalls >= 1

NoDanglingCallback ==
    dead # <<>> =>
        /\ ~active
        /\ pc = "idle"
        /\ ncalls = dead[1].ncalls
        /\ in_ncalls = dead[1].in_ncalls
        /\ Len(emitted) = dead[1].total

\* The backend has driven cycles after the destroy of a stream that was
\* playing and had called the user callback
NoDanglingCallbackWitness ==
    /\ dead # <<>>
    /\ dead[1].cycles >= 1
    /\ dead[1].ncalls >= 1
    /\ playing

\* C7: play() and pause() are idempotent.  play() leaves the flag true and
\* pause() leaves it false whatever it was, neither touches the bridge or the
\* realtime thread, and a play() while playing or a pause() while paused
\* changes nothing of the program's state.
PlayPauseIdempotent ==
    [][ /\ Play => /\ playing'
                   /\ UNCHANGED <<handler, active, pc, i, current_buffer_size,
                                  port_buffers>>
                   /\ playing => UNCHANGED playing
        /\ Pause => /\ ~playing'
                    /\ UNCHANGED <<handler, active, pc, i, current_buffer_size,
                                   port_buffers>>
                    /\ ~playing => UNCHANGED playing ]_vars

\* play() was called on a stream that was playing, mid-buffer
PlayPauseIdempotentWitness ==
    /\ ctl # <<>>
    /\ ctl[1].op = "play"
    /\ ctl[1].was
    /\ Cursor > 0
    /\ ncalls >= 1

\* C8: input mirrors output.  Between invocations of an input stream the user
\* input callback has run once for every period of frames captured.
InputMirrorsOutput ==
    (kind = "input" /\ pc = "idle") => in_ncalls = served \div Period

\* C9: reading from an output Buffer is always rejected.  Every read through
\* a handle ended in a panic and handed out no sample, whatever had been
\* written through the handle before.
ReadRejected ==
    /\ last_read.outcome \in {"none", "panic"}
    /\ last_read.data = <<>>

\* A handle was read after samples had been written through it
ReadRejectedWitness ==
    /\ last_read.outcome = "panic"
    /\ \E j \in 1..Len(last_read.seen) : last_read.seen[j] # Stale

\* C10: an output Buffer is sent to the device exactly once, when it is
\* released.  The device has received one block for each handle that was
\* created and released, in order of creation, and nothing of the handle that
\* is still in the user's hands.
SentOnRelease ==
    LET live == IF buffer = <<>> THEN 0 ELSE 1
    IN  /\ Len(device) = created - live
        /\ \A k \in 1..Len(device) : device[k].id = k
        /\ buffer # <<>> => buffer[1].id = created

\* A written block has reached the device on release, and samples written
\* through the next handle have not
SentOnReleaseWitness ==
    /\ Len(device) = 1
    /\ \E j \in 1..Len(device[1].data) : device[1].data[j] # Stale
    /\ buffer # <<>>
    /\ \E j \in 1..Len(buffer[1].target[1]) : buffer[1].target[1][j] # Stale

\* ------------------------------------------------------- control never waits
\* C15: play() and pause() never wait on the realtime thread.  Whenever the
\* application holds the Stream, both can be carried out at once, whatever
\* the realtime thread is doing: between cycles, inside the frame loop with
\* the callback's lock held, or in the middle of the user callback.
ControlNeverWaits == StreamExists => (ENABLED Play /\ ENABLED Pause)

\* A play() or pause() came and went while the user callback was executing
\* under the lock, and the callback is still executing
ControlNeverWaitsWitness ==
    /\ ctl # <<>>
    /\ ctl[1].in_cb
    /\ in_callback
    /\ mutex = "rt"

\* ------------------------------------------------------- callback count
Ceil(a, b) == (a + b - 1) \div b
Max0(a) == IF a > 0 THEN a ELSE 0

\* the invocation in progress ran the frame loop of an output stream to its end
LoopCompleted ==
    /\ pc = "done"
    /\ snap # <<>>
    /\ snap[1].flag
    /\ kind = "output"

\* the cursor the invocation in progress started at, the frames it was asked
\* for, and the user callbacks it has made
StartCursor == snap[1].handler.temp_output_buffer_index
Requested == snap[1].n
CallsMade == ncalls - snap[1].ncalls

\* C17 as stated: an invocation that starts with the cursor at the period
\* makes ceil(R/P) callbacks, and one that starts at a lower cursor makes
\* fewer than that.
CallbackCountFewer ==
    LoopCompleted =>
        /\ StartCursor = Period => CallsMade = Ceil(Requested, Period)
        /\ StartCursor < Period => CallsMade < Ceil(Requested, Period)

\* C17: an invocation that starts with the cursor at the period makes
\* ceil(R/P) callbacks; one that starts at a lower cursor serves the P - cursor
\* leftover frames first and makes one callback for each time the cursor
\* reaches the period while a frame is still required, which is
\* ceil(max(0, R - (P - cursor)) / P) and never more than ceil(R/P).
CallbackCount ==
    LoopCompleted =>
        /\ StartCursor = Period => CallsMade = Ceil(Requested, Period)
        /\ StartCursor < Period =>
              /\ CallsMade = Ceil(Max0(Requested - (Period - StartCursor)), Period)
              /\ CallsMade <= Ceil(Requested, Period)

\* An invocation started on leftover frames, consumed them, and still made as
\* many callbacks as one that starts with the cursor at the period
CallbackCountWitness ==
    /\ LoopCompleted
    /\ 0 < StartCursor
    /\ StartCursor < Period
    /\ CallsMade >= 1
    /\ CallsMade = Ceil(Requested, Period)

\* ------------------------------------------------------- cursor
\* a step of the frame loop that reads one frame
ReadsFrame == pc = "loop" /\ i' = i + 1

\* what a step may do to the cursor and to the count of user callbacks
CursorStep ==
    /\ ReadsFrame /\ Cursor = Period =>
          /\ ncalls' = ncalls + 1
          /\ Cursor' = 1
          /\ emitted'[Len(emitted')] = FillFrame(ncalls', 0)
    /\ ReadsFrame /\ Cursor # Period =>
          /\ Cursor < Period
          /\ ncalls' = ncalls
          /\ Cursor' = Cursor + 1
    /\ ncalls' # ncalls => ReadsFrame /\ Cursor = Period
    /\ ~ReadsFrame => Cursor' = Cursor

\* C18: the cursor stays within 0..period.  When a frame is needed with the
\* cursor at the period, the user callback is invoked exactly once and the
\* frame read is frame 0 of what it wrote; with the cursor below the period no
\* callback is made and the frame at the cursor is read.  No frame is read at
\* index period, and nothing else moves the cursor.
CursorInvariant ==
    /\ [](0 <= Cursor /\ Cursor <= Period)
    /\ [][CursorStep]_vars

\* The cursor stands at the period in the frame loop for the second time at
\* least, with the user callback being invoked
CursorInvariantWitness ==
    /\ pc = "loop"
    /\ Cursor = Period
    /\ in_callback
    /\ ncalls >= 1
    /\ Period >= 2

\* ------------------------------------------------------- deinterleaving
\* C19: the sample written to frame i of the native buffer of channel c is
\* the one at index c + cursor * channels of the staging buffer, the cursor
\* being the one the frame was read at, and the ports are taken in the order
\* they were declared.  Frames the loop has not reached are untouched.
Deinterleave ==
    (pc \in {"loop", "done"} /\ i > 0) =>
        /\ handler.out_ports = RegisterPorts(Channels)
        /\ \A c \in 1..Channels :
              /\ port_buffers[c][i] =
                    handler.temp_output_buffer[(c - 1) + (Cursor - 1) * Channels + 1]
              /\ \A j \in (i + 1)..current_buffer_size : port_buffers[c][j] = Stale

\* Two channels, a frame read from the user's samples at a cursor above 0
DeinterleaveWitness ==
    /\ pc = "loop"
    /\ i >= 1
    /\ Channels = 2
    /\ Period >= 2
    /\ Cursor >= 2
    /\ ncalls >= 1

\* ------------------------------------------------------- the callback's view
\* C20: the user callback is given a view of the whole staging buffer, of
\* channels * period samples, at every invocation; the staging buffer never
\* changes its length.
WholeBufferView ==
    /\ Len(handler.temp_output_buffer) = Channels * Period
    /\ cb_view # <<>> => cb_view[1] = Channels * Period

\* The user callback is being invoked for the third time at least on a
\* buffer of two channels and several frames
WholeBufferViewWitness ==
    /\ in_callback
    /\ ncalls >= 2
    /\ cb_view = <<Channels * Period>>
    /\ Channels = 2
    /\ Period >= 2

\* ------------------------------------------------------- construction failures
\* C11 as stated: when a backend call of the constructor fails, the caller
\* gets a typed error value, no Stream, and the client is not activated.
ConstructionFailureTyped ==
    build.failed =>
        /\ build.result = "error"
        /\ ~active

\* ------------------------------------------------------- runtime faults
\* C12 as stated: every runtime fault the backend has raised on the stream
\* has been delivered to the user error callback, and the stream is still
\* activated.
FaultsReported ==
    /\ err_ncalls = faults
    /\ faults > 0 => active

\* ------------------------------------------------------- port wiring
Min(a, b) == IF a < b THEN a ELSE b

\* a wiring call has returned or failed
WiringOver == wire.stage = "done"

\* the wiring call that suits the stream's kind
OwnDirection == IF build.kind = "output" THEN "outputs" ELSE "inputs"

\* C13 as stated: a completed wiring call has attempted min(n, m)
\* connections, the i-th declared port with the i-th system port, and has
\* reported a failure for each declared port beyond the system ports.
WiringReportsRest ==
    WiringOver /\ wire.dir = OwnDirection =>
        LET n == build.channels
            m == Len(wire.system_ports)
        IN  /\ Len(wire.attempts) = Min(n, m)
            /\ \A p \in 1..Len(wire.attempts) :
                  /\ wire.attempts[p].from = PortName(build.kind, p - 1)
                  /\ wire.attempts[p].to = wire.system_ports[p]
            /\ \A p \in (Min(n, m) + 1)..n :
                  \E r \in 1..Len(wire.reports) :
                      wire.reports[r].from = PortName(build.kind, p - 1)
            /\ wire.result = "returned"

\* C13: a completed wiring call has attempted exactly min(n, m) connections,
\* n being the port names the stream recorded, the i-th recorded name with the
\* i-th system port in order; the ports beyond the shorter list are skipped
\* silently: every report is for a pair that was attempted, and nothing is
\* raised.
WiringPairs ==
    WiringOver =>
        LET names == WireNames(wire.dir)
            k == Min(Len(names), Len(wire.system_ports))
        IN  /\ Len(wire.attempts) = k
            /\ \A p \in 1..k :
                  /\ wire.attempts[p].from = names[p]
                  /\ wire.attempts[p].to = wire.system_ports[p]
            /\ \A r \in 1..Len(wire.reports) :
                  \E p \in 1..k :
                      /\ wire.reports[r].from = wire.attempts[p].from
                      /\ wire.reports[r].to = wire.attempts[p].to
            /\ wire.result = "returned"

\* Four declared output ports against two system ports: the first two were
\* connected and nothing was reported
WiringPairsWitness ==
    /\ WiringOver
    /\ wire.dir = "outputs"
    /\ Len(output_port_names) = 4
    /\ Len(wire.system_ports) = 2
    /\ Len(wire.attempts) = 2
    /\ wire.attempts[1].ok /\ wire.attempts[2].ok
    /\ wire.reports = <<>>

\* the pairs of the attempts that failed, in order
RECURSIVE FailedPairs(_)
FailedPairs(attempts) ==
    IF attempts = <<>> THEN <<>>
    ELSE LET a == attempts[1]
         IN  IF a.ok THEN FailedPairs(Tail(attempts))
             ELSE <<[from |-> a.from, to |-> a.to]>> \o FailedPairs(Tail(attempts))

\* C14: a connection that fails is reported, once, and the wiring goes on:
\* at any point of the call the reports are the failed attempts so far, and
\* the call ends having attempted every pair up to the shorter list and
\* without a fatal error, however many attempts failed.
WiringContinues ==
    /\ wire.reports = FailedPairs(wire.attempts)
    /\ wire.result # "raised"
    /\ WiringOver =>
          Len(wire.attempts) =
              Min(Len(WireNames(wire.dir)), Len(wire.system_ports))

\* The first connection failed, later ones were attempted, one of them with
\* success
WiringContinuesWitness ==
    /\ WiringOver
    /\ Len(wire.attempts) >= 3
    /\ ~wire.attempts[1].ok
    /\ wire.attempts[2].ok
    /\ ~wire.attempts[3].ok
    /\ Len(wire.reports) = 2

\* ------------------------------------------------------- format conversion
\* C16: with_max_sample_rate keeps the channel count and the sample format
\* and picks the maximum sample rate, which lies within the range; a Format
\* turned into a SupportedFormat has min = max = its rate, and turning that
\* back with with_max_sample_rate gives the Format again.
FormatRoundTrip ==
    /\ conv.stage = "picked" =>
          /\ conv.f.channels = conv.sf.channels
          /\ conv.f.data_type = conv.sf.data_type
          /\ conv.f.sample_rate = conv.sf.max_sample_rate
          /\ conv.sf.min_sample_rate <= conv.f.sample_rate
          /\ conv.f.sample_rate <= conv.sf.max_sample_rate
    /\ conv.stage \in {"widened", "round"} =>
          /\ conv.sf.min_sample_rate = conv.f.sample_rate
          /\ conv.sf.max_sample_rate = conv.f.sample_rate
          /\ conv.sf.channels = conv.f.channels
          /\ conv.sf.data_type = conv.f.data_type
    /\ conv.stage = "round" => conv.back = conv.f

\* A Format of two channels went to a SupportedFormat and back
FormatRoundTripWitness ==
    /\ conv.stage = "round"
    /\ conv.f.channels = 2
    /\ conv.f.sample_rate = 2
    /\ conv.back = conv.f

\* ------------------------------------------------------- visibility of play and pause
\* the play()/pause() that had completed last when the invocation in progress began
LastBefore == snap[1].after

\* C21: the flag is loaded at the start of every invocation, so an invocation
\* that begins after a pause() has completed emits no frame and invokes no
\* user callback, and one that begins after a play() has completed runs the
\* frame loop and, on an output stream, emits the frames it was asked for.
VisibleOnNext ==
    /\ ctl # <<>> => playing = (ctl[1].op = "play")
    /\ snap # <<>> /\ LastBefore = "pause" =>
          /\ ~snap[1].flag
          /\ pc = "done"
          /\ ~in_callback
          /\ Len(emitted) = snap[1].total
          /\ ncalls = snap[1].ncalls
    /\ snap # <<>> /\ LastBefore = "play" =>
          /\ snap[1].flag
          /\ kind = "output" =>
                /\ pc \in {"loop", "done"}
                /\ Len(emitted) = snap[1].total + i
                /\ pc = "done" => i = snap[1].n

\* The first invocation after a play() that ended a pause has emitted its
\* frames, some of them out of a new user fill
VisibleOnNextWitness ==
    /\ pc = "done"
    /\ LastBefore = "play"
    /\ ctl[1].op = "play"
    /\ ~ctl[1].was
    /\ kind = "output"
    /\ snap[1].n >= 2
    /\ Len(emitted) = snap[1].total + snap[1].n
    /\ ncalls > snap[1].ncalls

ZeroFrame == [c \in 1..Channels |-> 0]

\* C26: the bridge starts with cursor 0 over a staging buffer of zeros.  The
\* first period of frames emitted is zeros, and after T >= 1 emitted frames
\* the user callback has been invoked floor((T - 1) / period) times: for the
\* first time when frame period + 1 is required.
InitialFill ==
    kind = "output" =>
        /\ \A t \in 1..Len(emitted) : t <= Period => emitted[t] = ZeroFrame
        /\ Len(emitted) >= 1 => ncalls = (Len(emitted) - 1) \div Period
        /\ Len(emitted) = 0 => ncalls = 0
        /\ in_callback => Len(emitted) >= Period

\* Frame period + 1 is required and the user callback is invoked for the
\* first time
InitialFillWitness ==
    /\ kind = "output"
    /\ Period >= 2
    /\ Len(emitted) = Period
    /\ in_callback
    /\ ncalls = 0

\* ------------------------------------------------------- the flag is read once
\* the flag was stored to since the invocation in progress loaded it
StoredSinceLoad == snap # <<>> /\ playing # snap[1].flag

\* C27: the flag is loaded once per invocation.  A pause() stored while an
\* invocation is in progress does not cut it short: the frame loop goes on to
\* the last requested frame.  A play() stored while a paused invocation is
\* returning does not make it emit a frame or invoke the user callback.
FlagReadOnce ==
    /\ StoredSinceLoad /\ snap[1].flag /\ kind = "output" =>
          \/ pc = "loop" /\ i < snap[1].n /\ Len(emitted) = snap[1].total + i
          \/ pc = "done" /\ i = snap[1].n
                         /\ Len(emitted) = snap[1].total + snap[1].n
    /\ StoredSinceLoad /\ ~snap[1].flag =>
          /\ pc = "done"
          /\ i = 0
          /\ Len(emitted) = snap[1].total
          /\ ncalls = snap[1].ncalls

\* pause() was stored in the middle of a user callback, and the invocation
\* went on to emit all its frames
FlagReadOnceWitness ==
    /\ pc = "done"
    /\ snap[1].flag
    /\ ~playing
    /\ ctl[1].op = "pause"
    /\ ctl[1].in_cb
    /\ kind = "output"
    /\ snap[1].n >= 2
    /\ Len(emitted) = snap[1].total + snap[1].n

\* ------------------------------------------------------- process never unwinds
\* C23: process never unwinds.  In every reachable state of the frame loop
\* the indices of the next iteration are within the native port buffer and
\* the staging buffer, whatever the frame count of the invocation and the
\* cursor it started at; the loop can always take its next step, an
\* invocation that entered the loop ends having served every frame, and it
\* returns to the backend.
NeverUnwinds ==
    /\ pc # "panic"
    /\ mutex # "poisoned"
    /\ pc = "loop" =>
          /\ ~IndexPanics(handler, i, current_buffer_size)
          /\ ENABLED (CallbackEnter \/ ProcessFrame)
    /\ pc = "done" =>
          /\ ENABLED ProcessReturn
          /\ snap[1].flag /\ kind = "output" => i = snap[1].n

\* An invocation of more frames than the period, on two channels, that began
\* in the middle of the staging buffer, has returned
NeverUnwindsWitness ==
    /\ pc = "done"
    /\ snap[1].flag
    /\ kind = "output"
    /\ Channels = 2
    /\ Period >= 2
    /\ snap[1].n > Period
    /\ snap[1].handler.temp_output_buffer_index > 0
    /\ snap[1].handler.temp_output_buffer_index < Period
    /\ i = snap[1].n

\* ------------------------------------------------------- ports before the bridge
\* the ports the bridge owns
BridgePorts == handler.out_ports \o handler.in_ports

\* the constructor's calls so far are registrations, then new, then activate
RegistrationFirst ==
    \A p \in 1..Len(build.log) :
        /\ p <= build.channels => build.log[p] = "register"
        /\ p = build.channels + 1 => build.log[p] = "new"
        /\ p = build.channels + 2 => build.log[p] = "activate"
        /\ p <= build.channels + 2

\* LocalProcessHandler::new has been called
BridgeBuilt == \E p \in 1..Len(build.log) : build.log[p] = "new"

\* C24: every port of the stream is registered before the bridge is
\* constructed and before the client is activated; the bridge owns exactly
\* those ports, in order, its staging buffer holds ports x period samples (of
\* the out ports), and no step changes the ports it owns, so this
\* stays so through every realtime cycle.
PortsBeforeBridge ==
    /\ [](/\ RegistrationFirst
          /\ ~BridgeBuilt => handler = Unbuilt(build.buffer_size) /\ ~active
          /\ active => build.stage = "done"
          /\ BridgeBuilt =>
                /\ BridgePorts = build.ports
                /\ Len(BridgePorts) = build.channels
                /\ Len(handler.temp_output_buffer) =
                      Len(handler.out_ports) * handler.temp_output_buffer_size
                /\ handler.temp_output_buffer_size = build.buffer_size)
    /\ [][BridgeBuilt =>
             /\ handler'.out_ports = handler.out_ports
             /\ handler'.in_ports = handler.in_ports
             /\ build'.ports = build.ports]_vars

\* A bridge of three ports or more has refilled its staging buffer in a
\* realtime cycle
PortsBeforeBridgeWitness ==
    /\ build.stage = "done"
    /\ build.kind = "output"
    /\ build.channels >= 3
    /\ Len(handler.out_ports) = build.channels
    /\ ncalls >= 1
    /\ pc = "done"

\* ------------------------------------------------------- the callback's lock
\* what a step may do to the lock: the realtime thread takes it on entering
\* the frame loop and releases it on leaving the loop
LockStep ==
    mutex' # mutex =>
        \/ mutex = "free" /\ mutex' = "rt" /\ pc = "idle" /\ pc' = "loop"
        \/ mutex = "rt" /\ mutex' = "free" /\ pc = "loop" /\ pc' = "done"

\* C22: the lock around the user callback is never contended.  Only the
\* realtime thread holds it, from the start of the frame loop to its end,
\* once per invocation that runs the loop; it is free whenever an invocation
\* begins, so the realtime thread never waits for it, whatever play(),
\* pause() and the wiring calls do in between.
GuardUncontended ==
    /\ [](/\ mutex \in {"free", "rt"}
          /\ mutex = "rt" <=> pc = "loop"
          /\ pc = "idle" => mutex = "free")
    /\ [][LockStep]_vars

\* The realtime thread holds the lock in the middle of a user callback while a
\* wiring call is in its loop and a play() or pause() has just completed
GuardUncontendedWitness ==
    /\ mutex = "rt"
    /\ in_callback
    /\ wire.stage = "loop"
    /\ wire.i >= 1
    /\ ctl # <<>>
    /\ ctl[1].in_cb
    /\ ncalls >= 1

====
